---- MODULE Spec2Model ----
(***************************************************************************)
(* Model of the Baxter hardware abstraction (src/src/hardware/baxter.py):  *)
(* robot lifecycle (set_up / clean_up), inverse-kinematics dispatch,       *)
(* task-space pose sampling, gripper selection and object position         *)
(* estimation.                                                             *)
(*                                                                         *)
(* Conventions                                                             *)
(*  - A Python value that may be None is a sequence: <<>> is None and      *)
(*    <<v>> is the value v.                                                *)
(*  - Every handler runs to completion in one step (the program is         *)
(*    single-threaded and blocking).  `calls` is the ordered list of       *)
(*    collaborator calls made by the most recent handler, `logs` the       *)
(*    records it logged and `result` what it returned or raised.           *)
(*  - Lengths are integers: millimetres for gripper widths, micrometres    *)
(*    for the position estimate.                                           *)
(***************************************************************************)
EXTENDS Integers, Sequences, FiniteSets, TLC

VARIABLES
    enabled,              \* RobotEnable.state().enabled of the robot itself
    _rs,                  \* self._rs: <<>> or <<"RobotEnable">>
    _init_state,          \* self._init_state: <<>> or <<BOOLEAN>>
    cam_offset,           \* self.cam_offset: <<>> or <<offset vector>>
    range_offset,         \* self.range_offset
    z_table,              \* self.z_table: <<>> or <<height>>
    task_space_limits_m,  \* settings.task_space_limits_m (one shared dict)
    gripper_settings,     \* settings.gripper_settings: arm -> (label, slot)
    object_size_meters,   \* settings.object_size_meters: object id -> size
    calls,                \* collaborator calls of the last handler, in order
    logs,                 \* log records of the last handler, in order
    result,               \* outcome of the last handler
    configured,           \* history: the envelope as configured at start
    enabled0,             \* history: enablement before the first set_up
    cyc,                  \* history: position in the set_up/clean_up cycle
    cycles,               \* history: number of set_up calls so far
    _sensors,             \* raw state() of the hand range sensor of each arm
    _imgmsg,              \* Images._imgmsg: <<>> or <<reference to a frame>>
    heap,                 \* the frame messages delivered so far, by reference
    _cam_sub,             \* Images._cam_sub: the state of the subscription
    cb,                   \* the running invocation of _camera_callback
    rec                   \* position and locals of Images.record

\* the state of the recorder script (scripts/record_image.py)
camVars == <<_imgmsg, heap, _cam_sub, cb, rec>>

extVars == <<_sensors, camVars>>

baxterVars == <<enabled, _rs, _init_state, cam_offset, range_offset, z_table,
                task_space_limits_m, gripper_settings, object_size_meters,
                calls, logs, result, configured, enabled0, cyc, cycles>>

vars == <<baxterVars, extVars>>

\* ---------------------------------------------------------------- bounds
MaxCycles == 2
MaxPoseLen == 7
MaxZ == 2
SampleRes == 2
MaxSize == 152
MaxTraj == 2
MaxRaw == 66000
MaxFrames == 3

\* ------------------------------------------------------------- constants
None == <<>>
Some(v) == <<v>>

_arms == <<"left", "right">>
Arms == {"left", "right"}

NoResult == [op |-> "none"]

\* ------------------------------------------------------------- lifecycle
\* _get_cam_offset / _get_range_offset, in micrometres
_get_cam_offset == <<38280, 12000, -142345>>
_get_range_offset == <<32000, -20245, -128900>>

\* the collaborator calls of set_up for one arm
set_up_arm(gripper, arm) ==
    <<[op |-> "move_to_neutral", arm |-> arm]>>
    \o (IF gripper
        THEN <<[op |-> "set_parameters", arm |-> arm],
               [op |-> "calibrate", arm |-> arm]>>
        ELSE <<>>)
    \o <<[op |-> "set_meters_per_pixel", arm |-> arm]>>

\* `for arm in self._arms` of set_up, from the i-th arm on
RECURSIVE set_up_arms(_, _)
set_up_arms(gripper, i) ==
    IF i > Len(_arms) THEN <<>>
    ELSE set_up_arm(gripper, _arms[i]) \o set_up_arms(gripper, i + 1)

\* set_up: the state of the robot is read, then the robot is enabled
read_init_state_late(en) == Some(TRUE)
read_init_state(en) == Some(en)

\* `self._rs.enable()`: the command is sent whatever state was read
enable_calls_if_disabled(en) ==
    IF en THEN <<>> ELSE <<[op |-> "enable", arm |-> "robot"]>>
enable_calls(en) == <<[op |-> "enable", arm |-> "robot"]>>

\* the collaborator calls of set_up, in the order of the statements
set_up_calls_enable_last(en, gripper) ==
    <<[op |-> "RobotEnable", arm |-> "robot"],
      [op |-> "state", arm |-> "robot"]>>
    \o set_up_arms(gripper, 1) \o enable_calls(en)
set_up_calls(en, gripper) ==
    <<[op |-> "RobotEnable", arm |-> "robot"],
      [op |-> "state", arm |-> "robot"]>>
    \o enable_calls(en) \o set_up_arms(gripper, 1)

set_up(en, gripper) ==
    [_rs         |-> Some("RobotEnable"),
     _init_state |-> read_init_state(en),
     enabled     |-> TRUE,
     calls       |-> set_up_calls(en, gripper),
     logs        |-> <<<<"info", "Getting robot state.">>,
                       <<"info", "Enabling robot.">>,
                       <<"info", "Getting camera offset.">>,
                       <<"info", "Getting range offset.">>,
                       <<"info", "Moving limbs to neutral">>>>]

\* the collaborator calls of clean_up for one arm
clean_up_arm(gripper, arm) ==
    (IF gripper
     THEN <<[op |-> "set_parameters", arm |-> arm],
            [op |-> "open", arm |-> arm]>>
     ELSE <<>>)
    \o <<[op |-> "move_to_neutral", arm |-> arm]>>

\* `for arm in self._arms` of clean_up, from the i-th arm on
RECURSIVE clean_up_arms(_, _)
clean_up_arms(gripper, i) ==
    IF i > Len(_arms) THEN <<>>
    ELSE clean_up_arm(gripper, _arms[i]) \o clean_up_arms(gripper, i + 1)

\* Python truth value of self._init_state (None and False are falsy)
truthy(v) == v = Some(TRUE)

\* clean_up: `if not self._init_state: self._rs.disable()`; with _rs still
\* None the attribute access raises AttributeError
clean_up(en, rs, init, gripper) ==
    LET armCalls == clean_up_arms(gripper, 1)
        head == <<<<"info", "Initiating safe shut-down">>,
                  <<"info", "Moving limbs to neutral configuration">>>>
    IN  IF truthy(init)
        THEN [enabled |-> en, calls |-> armCalls, logs |-> head,
              status |-> "return", exc |-> "none"]
        ELSE IF rs = None
        THEN [enabled |-> en, calls |-> armCalls,
              logs |-> head \o <<<<"info", "Disabling robot">>>>,
              status |-> "raise", exc |-> "AttributeError"]
        ELSE [enabled |-> FALSE,
              calls |-> armCalls \o <<[op |-> "disable", arm |-> "robot"]>>,
              logs |-> head \o <<<<"info", "Disabling robot">>>>,
              status |-> "return", exc |-> "none"]

\* history of the call sequence: "fresh" before the first set_up, "up" after
\* a set_up, "down" after the clean_up that closes it, "off" once set_up and
\* clean_up stopped alternating
CycAfterSetUp(c) == IF c \in {"fresh", "down"} THEN "up" ELSE "off"
CycAfterCleanUp(c) == IF c = "up" THEN "down" ELSE "off"

SetUp(gripper) ==
    /\ cycles < MaxCycles
    /\ \E r \in {set_up(enabled, gripper)} :
        /\ _rs' = r._rs
        /\ _init_state' = r._init_state
        /\ enabled' = r.enabled
        /\ cam_offset' = Some(_get_cam_offset)
        /\ range_offset' = Some(_get_range_offset)
        /\ calls' = r.calls
        /\ logs' = r.logs
        /\ result' = [op |-> "set_up", gripper |-> gripper,
                      status |-> "return", exc |-> "none"]
    /\ enabled0' = IF cyc = "fresh" THEN enabled ELSE enabled0
    /\ cyc' = CycAfterSetUp(cyc)
    /\ cycles' = cycles + 1
    /\ UNCHANGED <<z_table, task_space_limits_m, gripper_settings, object_size_meters, extVars, configured>>

CleanUp(gripper) ==
    /\ \E r \in {clean_up(enabled, _rs, _init_state, gripper)} :
        /\ enabled' = r.enabled
        /\ calls' = r.calls
        /\ logs' = r.logs
        /\ result' = [op |-> "clean_up", gripper |-> gripper,
                      status |-> r.status, exc |-> r.exc]
    /\ cyc' = CycAfterCleanUp(cyc)
    /\ UNCHANGED <<_rs, _init_state, cam_offset, range_offset, z_table,
                   task_space_limits_m, gripper_settings, object_size_meters, extVars, configured,
                   enabled0, cycles>>

\* ---------------------------------------------------- inverse kinematics
\* the pose arguments: None, a ROS Pose message, or a list of some length
Poses ==
    {[kind |-> "None", len |-> 0], [kind |-> "Pose", len |-> 0]}
    \cup {[kind |-> "list", len |-> n] : n \in {0} \cup 5..MaxPoseLen}

\* what the IK service does when it is asked:
\*   "unavailable": wait_for_service times out (rospy.ROSException)
\*   "transport":   the service call fails (rospy.ServiceException)
\*   "invalid":     the response has isValid[0] = False
\*   "valid":       the response carries a joint configuration
IKOutcomes == {"unavailable", "transport", "invalid", "valid"}

\* utils.list_to_pose_msg: a list of 6 (Euler) or 7 (quaternion) numbers
\* becomes a Pose message, any other length raises ValueError
list_to_pose_msg(pose) ==
    IF pose.len = 6 THEN [status |-> "return", msg |-> "Pose(euler)"]
    ELSE IF pose.len = 7 THEN [status |-> "return", msg |-> "Pose(quaternion)"]
    ELSE [status |-> "raise", msg |-> "invalid pose length"]

\* _stamp_pose: a Pose message is taken as it is, a list is converted; the
\* conversion error is logged and re-raised
_stamp_pose(pose) ==
    IF pose.kind = "Pose"
    THEN [status |-> "return", exc |-> "none", msg |-> "Pose",
          logs |-> <<>>]
    ELSE LET m == list_to_pose_msg(pose) IN
         IF m.status = "raise"
         THEN [status |-> "raise", exc |-> "ValueError", msg |-> m.msg,
               logs |-> <<<<"error", m.msg>>>>]
         ELSE [status |-> "return", exc |-> "none", msg |-> m.msg,
               logs |-> <<>>]

\* the joint configuration of one arm, as returned by the IK service or by
\* Limb.joint_angles()
Config(arm, src) == [arm |-> arm, src |-> src]
NoValue == [arm |-> "none", src |-> "none"]

\* the try block of ik: wait for the service, then send the request
ik_request_no_wait(arm, outcome) ==
    <<[op |-> "ik_service", arm |-> arm]>>
ik_request(arm, outcome) ==
    <<[op |-> "wait_for_service", arm |-> arm]>>
    \o (IF outcome = "unavailable" THEN <<>>
        ELSE <<[op |-> "ik_service", arm |-> arm]>>)

\* ik(arm, pose); outcome is the behaviour of the IK service of that arm
ik(arm, pose, outcome) ==
    IF pose.kind = "None"
    THEN [status |-> "return", exc |-> "none", msg |-> "none",
          value |-> Config(arm, "joint_angles"),
          calls |-> <<[op |-> "joint_angles", arm |-> arm]>>,
          logs |-> <<>>]
    ELSE LET pq == _stamp_pose(pose) IN
         IF pq.status = "raise"
         THEN [status |-> "raise", exc |-> pq.exc, msg |-> pq.msg,
               value |-> NoValue, calls |-> <<>>, logs |-> pq.logs]
         ELSE IF outcome = "unavailable"
         THEN [status |-> "raise", exc |-> "ROSException",
               msg |-> "service unavailable", value |-> NoValue,
               calls |-> ik_request(arm, outcome),
               logs |-> <<<<"error", "Service request failed">>>>]
         ELSE IF outcome = "transport"
         THEN [status |-> "raise", exc |-> "ServiceException",
               msg |-> "service call failed", value |-> NoValue,
               calls |-> ik_request(arm, outcome),
               logs |-> <<<<"error", "Service request failed">>>>]
         ELSE IF outcome = "valid"
         THEN [status |-> "return", exc |-> "none", msg |-> "none",
               value |-> Config(arm, "ik_service"),
               calls |-> ik_request(arm, outcome), logs |-> <<>>]
         ELSE [status |-> "raise", exc |-> "ValueError",
               msg |-> "No valid configuration found with arm",
               value |-> NoValue,
               calls |-> ik_request(arm, outcome),
               logs |-> <<<<"debug", "No valid configuration found with arm">>>>]

\* the exceptions the handlers of ik_either_limb catch (`except ValueError`)
caught_any(exc) == TRUE
caught(exc) == exc = "ValueError"

\* the order in which ik_either_limb tries the arms
first_arm_right == "right"
first_arm == "left"
second_arm == "right"

\* ik_either_limb(pose); outL and outR are the behaviours of the IK services
\* of the left and of the right arm
OutcomeFor(arm, outL, outR) == IF arm = "left" THEN outL ELSE outR

ik_either_limb(pose, outL, outR) ==
    LET a1 == first_arm
        r1 == ik(a1, pose, OutcomeFor(a1, outL, outR))
    IN  IF r1.status = "return"
        THEN [status |-> "return", exc |-> "none", msg |-> "none",
              arm |-> a1, value |-> r1.value,
              calls |-> r1.calls, logs |-> r1.logs]
        ELSE IF ~caught(r1.exc)
        THEN [status |-> "raise", exc |-> r1.exc, msg |-> r1.msg,
              arm |-> "none", value |-> NoValue,
              calls |-> r1.calls, logs |-> r1.logs]
        ELSE LET a2 == second_arm
                 r2 == ik(a2, pose, OutcomeFor(a2, outL, outR))
             IN  IF r2.status = "return"
                 THEN [status |-> "return", exc |-> "none", msg |-> "none",
                       arm |-> a2, value |-> r2.value,
                       calls |-> r1.calls \o r2.calls,
                       logs |-> r1.logs \o r2.logs]
                 ELSE IF ~caught(r2.exc)
                 THEN [status |-> "raise", exc |-> r2.exc, msg |-> r2.msg,
                       arm |-> "none", value |-> NoValue,
                       calls |-> r1.calls \o r2.calls,
                       logs |-> r1.logs \o r2.logs]
                 ELSE [status |-> "raise", exc |-> "ValueError",
                       msg |-> "No valid configuration found with either arm",
                       arm |-> "none", value |-> NoValue,
                       calls |-> r1.calls \o r2.calls,
                       logs |-> r1.logs \o r2.logs
                                \o <<<<"warning",
                                       "No valid configuration found with either arm">>>>]

KinFrame ==
    UNCHANGED <<enabled, _rs, _init_state, cam_offset, range_offset, z_table,
                task_space_limits_m, gripper_settings, object_size_meters, extVars, configured,
                enabled0, cyc, cycles>>

Ik(arm, pose, outcome) ==
    /\ \E r \in {ik(arm, pose, outcome)} :
        /\ calls' = r.calls
        /\ logs' = r.logs
        /\ result' = [op |-> "ik", arm |-> arm, pose |-> pose,
                      outcome |-> outcome, status |-> r.status,
                      exc |-> r.exc, msg |-> r.msg, value |-> r.value]
    /\ KinFrame

IkEitherLimb(pose, outL, outR) ==
    /\ \E r \in {ik_either_limb(pose, outL, outR)} :
        /\ calls' = r.calls
        /\ logs' = r.logs
        /\ result' = [op |-> "ik_either_limb", pose |-> pose,
                      outL |-> outL, outR |-> outR, status |-> r.status,
                      exc |-> r.exc, msg |-> r.msg, arm |-> r.arm,
                      value |-> r.value]
    /\ KinFrame

\* ------------------------------------------------------ motion control
ControlModes == {"position", "velocity", "torque", "force"}

\* the joint configurations a trajectory may yield: all of one arm
TrajPoints ==
    {[i \in 1..n |-> Config(a, "planner")] : a \in Arms, n \in 0..MaxTraj}

\* the arguments of control: a MotionPlanner instance or any other object
Trajectories ==
    {[planner |-> p, controller_type |-> c, qs |-> q] :
        p \in BOOLEAN, c \in ControlModes, q \in TrajPoints}

\* `for q in trajectory`: one move command per configuration, from the i-th
RECURSIVE move_calls(_, _)
move_calls(qs, i) ==
    IF i > Len(qs) THEN <<>>
    ELSE <<[op |-> "move_to_joint_positions", arm |-> qs[i].arm]>>
         \o move_calls(qs, i + 1)

\* `trajectory.controller_type == 'position'`
is_position_or_velocity(ct) == ct \in {"position", "velocity"}
is_position(ct) == ct = "position"

\* control(trajectory)
control(trajectory) ==
    IF ~trajectory.planner
    THEN [status |-> "raise", exc |-> "TypeError", calls |-> <<>>]
    ELSE IF is_position(trajectory.controller_type)
    THEN [status |-> "return", exc |-> "none",
          calls |-> move_calls(trajectory.qs, 1)]
    ELSE IF trajectory.controller_type = "velocity"
    THEN [status |-> "raise", exc |-> "NotImplementedError", calls |-> <<>>]
    ELSE IF trajectory.controller_type = "torque"
    THEN [status |-> "raise", exc |-> "NotImplementedError", calls |-> <<>>]
    ELSE [status |-> "raise", exc |-> "KeyError", calls |-> <<>>]

\* SimplePlanner.plan(start, end): a position trajectory of n configurations
\* of the arm of the target that ends in the target
SimplePlanner(end, n) ==
    [planner |-> TRUE, controller_type |-> "position",
     qs |-> [i \in 1..n |-> IF i = n THEN end ELSE Config(end.arm, "planner")]]

\* plan(target); n is the length of the trajectory the planner makes
plan(target, n) ==
    [trajectory |-> SimplePlanner(target, n),
     calls |-> <<[op |-> "joint_angles", arm |-> target.arm],
                 [op |-> "plan", arm |-> target.arm]>>]

\* move_to_config(config)
move_to_config(config, n) ==
    LET p == plan(config, n)
        c == control(p.trajectory)
    IN  [status |-> c.status, exc |-> c.exc, calls |-> p.calls \o c.calls]

\* `config = self.ik(arm=arm, pose=pose)` returned and did not raise
ik_ignored(status) == TRUE
ik_returned(status) == status = "return"

\* move_to_pose(arm, pose)
move_to_pose(arm, pose, outcome, n) ==
    LET r == ik(arm, pose, outcome) IN
    IF ~ik_returned(r.status)
    THEN [status |-> "raise", exc |-> r.exc, msg |-> r.msg,
          calls |-> r.calls, logs |-> r.logs]
    ELSE LET m == move_to_config(r.value, n) IN
         [status |-> m.status, exc |-> m.exc, msg |-> "none",
          calls |-> r.calls \o m.calls, logs |-> r.logs]

Control(trajectory) ==
    /\ \E r \in {control(trajectory)} :
        /\ calls' = r.calls
        /\ result' = [op |-> "control", trajectory |-> trajectory,
                      status |-> r.status, exc |-> r.exc]
    /\ logs' = <<>>
    /\ KinFrame

MoveToPose(arm, pose, outcome, n) ==
    /\ \E r \in {move_to_pose(arm, pose, outcome, n)} :
        /\ calls' = r.calls
        /\ logs' = r.logs
        /\ result' = [op |-> "move_to_pose", arm |-> arm, pose |-> pose,
                      outcome |-> outcome, steps |-> n,
                      status |-> r.status, exc |-> r.exc, msg |-> r.msg]
    /\ KinFrame

\* ------------------------------------------------------- distance sensor
\* raw readings of the hand range sensor, in millimetres
RangeLimit == 65000
Readings == (0..1500) \cup (64000..MaxRaw)

\* `distance/1000.0`: metres, kept as whole metres and remaining millimetres
to_meters(raw) == <<raw \div 1000, raw % 1000>>

\* `if distance < 65000`
below_or_at_limit(raw) == raw <= RangeLimit
below_limit(raw) == raw < RangeLimit

\* measure_distance(arm); raw is self._sensors[arm].state()
measure_distance(raw) ==
    IF below_limit(raw) THEN Some(to_meters(raw)) ELSE None

MeasureDistance(arm) ==
    /\ result' = [op |-> "measure_distance", arm |-> arm,
                  raw |-> _sensors[arm], status |-> "return",
                  exc |-> "none", value |-> measure_distance(_sensors[arm])]
    /\ calls' = <<[op |-> "state", arm |-> arm]>>
    /\ logs' = <<>>
    /\ KinFrame

\* ---------------------------------------------------------- pose sampling
\* Positions of the envelope are in decimetres, angles in quarter turns
\* (np.pi is 2).  np.random.random_sample() draws from [0, 1): the draw k
\* stands for k / SampleRes, and a sampled coordinate is kept as its
\* numerator over SampleRes.
Pi == 2
Draws == 0..(SampleRes - 1)

\* the envelopes settings.task_space_limits_m may be configured with
Envelope(zmin, zmax, wide) ==
    [x_min |-> 3, x_max |-> 9, y_min |-> -8, y_max |-> 8,
     z_min |-> zmin, z_max |-> zmax,
     roll_min |-> IF wide THEN -Pi ELSE Pi, roll_max |-> Pi,
     pitch_min |-> IF wide THEN -1 ELSE 0, pitch_max |-> IF wide THEN 1 ELSE 0,
     yaw_min |-> IF wide THEN -Pi ELSE Pi, yaw_max |-> Pi]

ZIntervals ==
    {zz \in ((-MaxZ)..MaxZ) \X ((-MaxZ)..MaxZ) : zz[1] <= zz[2]}
Envelopes ==
    {Envelope(zz[1], zz[2], wide) : zz \in ZIntervals, wide \in BOOLEAN}
DefaultEnvelope == Envelope(-1, MaxZ, FALSE)

\* one coordinate of sample_pose: (max - min) * random_sample() + min
sample_coord_from_max(lo, hi, k) == (hi - lo) * k + hi * SampleRes
sample_coord(lo, hi, k) == (hi - lo) * k + lo * SampleRes

\* sample_pose(lim); ks are the six draws of the random source
sample_pose(lim, ks) ==
    <<sample_coord(lim.x_min, lim.x_max, ks[1]),
      sample_coord(lim.y_min, lim.y_max, ks[2]),
      sample_coord(lim.z_min, lim.z_max, ks[3]),
      sample_coord(lim.roll_min, lim.roll_max, ks[4]),
      sample_coord(lim.pitch_min, lim.pitch_max, ks[5]),
      sample_coord(lim.yaw_min, lim.yaw_max, ks[6])>>

\* sample_task_space_pose(clip_z): `borders` is the dict object of the
\* settings itself, so the item assignments write the settings
sample_task_space_pose(limits, clip_z, ks) ==
    LET b1 == IF clip_z THEN [limits EXCEPT !.z_max = 0] ELSE limits
        borders == [b1 EXCEPT !.roll_max = Pi, !.roll_min = Pi,
                              !.pitch_max = 0, !.pitch_min = 0,
                              !.yaw_max = Pi, !.yaw_min = Pi]
    IN  [limits |-> borders, pose |-> sample_pose(borders, ks)]

SampleTaskSpacePose(clip_z, ks) ==
    /\ \E r \in {sample_task_space_pose(task_space_limits_m, clip_z, ks)} :
        /\ task_space_limits_m' = r.limits
        /\ result' = [op |-> "sample_task_space_pose", clip_z |-> clip_z,
                      status |-> "return", exc |-> "none",
                      z_min |-> r.limits.z_min, z_max |-> r.limits.z_max,
                      pose |-> r.pose]
    /\ calls' = <<>>
    /\ logs' = <<>>
    /\ UNCHANGED <<enabled, _rs, _init_state, cam_offset, range_offset,
                   z_table, gripper_settings, object_size_meters, extVars, configured, enabled0, cyc,
                   cycles>>

\* ------------------------------------------------------ gripper selection
ObjectIds == {"object"}

\* _gripper_ranges_meters, in millimetres
GripperKeys == {<<l, n>> : l \in {"narrow", "wide"}, n \in 1..4}

_gripper_ranges_meters(key) ==
    CASE key = <<"narrow", 1>> -> <<0, 18>>
      [] key = <<"narrow", 2>> -> <<14, 37>>
      [] key = <<"narrow", 3>> -> <<33, 56>>
      [] key = <<"narrow", 4>> -> <<52, 75>>
      [] key = <<"wide", 1>> -> <<71, 94>>
      [] key = <<"wide", 2>> -> <<90, 113>>
      [] key = <<"wide", 3>> -> <<109, 132>>
      [] key = <<"wide", 4>> -> <<128, 151>>

Abs(x) == IF x < 0 THEN -x ELSE x
Min2(a, b) == IF a <= b THEN a ELSE b

\* `gr[0] <= size < gr[1]`
in_range_upper(gr, size) == size < gr[2]
in_range(gr, size) == gr[1] <= size /\ size < gr[2]

\* min(dists) with dists = [abs(x - size) for x in gr]
min_dist_of(gr, size) == Min2(Abs(gr[1] - size), Abs(gr[2] - size))

\* `if min_dist > 0.0`
usable(md) == md > 0

\* `if gr[0] > min_width` in the branch of equal distances
wider(lo, min_width) == lo > min_width

\* one iteration of the loop over the arms; st is (dist, min_width, arm)
select_step(st, a, size, gs) ==
    LET gr == _gripper_ranges_meters(gs[a])
        md == min_dist_of(gr, size)
    IN  IF ~in_range(gr, size) THEN st
        ELSE IF ~usable(md) THEN st
        ELSE IF md > st.dist
        THEN [dist |-> md,
              min_width |-> IF gr[1] > st.min_width THEN gr[1]
                            ELSE st.min_width,
              arm |-> a]
        ELSE IF md = st.dist /\ wider(gr[1], st.min_width)
        THEN [dist |-> st.dist, min_width |-> gr[1], arm |-> a]
        ELSE st

RECURSIVE select_loop(_, _, _, _)
select_loop(st, i, size, gs) ==
    IF i > Len(_arms) THEN st
    ELSE select_loop(select_step(st, _arms[i], size, gs), i + 1, size, gs)

\* select_gripper_for_object; size is settings.object_size_meters[object_id]
select_gripper_for_object(size, gs) ==
    LET st == select_loop([dist |-> 0, min_width |-> 0, arm |-> "None"],
                          1, size, gs)
    IN  IF st.arm = "None"
        THEN [status |-> "raise", exc |-> "ValueError",
              msg |-> "No suitable gripper", arm |-> "None",
              logs |-> <<<<"error", "No suitable gripper">>>>]
        ELSE [status |-> "return", exc |-> "none", msg |-> "none",
              arm |-> st.arm,
              logs |-> <<<<"info", "Selected limb to grasp object.">>>>]

SelectGripperForObject(object_id) ==
    /\ \E size \in {object_size_meters[object_id]} :
       \E r \in {select_gripper_for_object(size, gripper_settings)} :
        /\ result' = [op |-> "select_gripper_for_object", size |-> size,
                      status |-> r.status, exc |-> r.exc, msg |-> r.msg,
                      arm |-> r.arm]
        /\ logs' = r.logs
    /\ calls' = <<>>
    /\ UNCHANGED <<enabled, _rs, _init_state, cam_offset, range_offset,
                   z_table, task_space_limits_m, gripper_settings, object_size_meters, extVars,
                   configured, enabled0, cyc, cycles>>

\* ------------------------------------------------- position estimation
\* Homogeneous transforms are 4x4 integer matrices, lengths in micrometres.
Row(a, b, c, d) == <<a, b, c, d>>

\* one entry of a matrix product: row r times column j of B
Dot(r, B, j) == r[1] * B[1][j] + r[2] * B[2][j] + r[3] * B[3][j]
                + r[4] * B[4][j]
RowTimes(r, B) == <<Dot(r, B, 1), Dot(r, B, 2), Dot(r, B, 3), Dot(r, B, 4)>>

\* np.dot of two 4x4 matrices
MatMul(A, B) ==
    <<RowTimes(A[1], B), RowTimes(A[2], B), RowTimes(A[3], B),
      RowTimes(A[4], B)>>

\* np.dot of a 4x4 matrix and a vector of length 4
DotVec(r, v) == r[1] * v[1] + r[2] * v[2] + r[3] * v[3] + r[4] * v[4]
MatVec(A, v) ==
    <<DotVec(A[1], v), DotVec(A[2], v), DotVec(A[3], v), DotVec(A[4], v)>>

\* rotation part R (three rows) and translation t as one matrix
Hom(R, t) ==
    <<Row(R[1][1], R[1][2], R[1][3], t[1]),
      Row(R[2][1], R[2][2], R[2][3], t[2]),
      Row(R[3][1], R[3][2], R[3][3], t[3]),
      Row(0, 0, 0, 1)>>

\* orientations of the gripper: upright, turned over (pointing at the
\* table), and tilted a quarter turn about y
Upright == <<<<1, 0, 0>>, <<0, 1, 0>>, <<0, 0, 1>>>>
TurnedOver == <<<<1, 0, 0>>, <<0, -1, 0>>, <<0, 0, -1>>>>
Tilted == <<<<0, 0, 1>>, <<0, 1, 0>>, <<-1, 0, 0>>>>
Orientations == {Upright, TurnedOver, Tilted}

\* positions of the end effector the limb may report
EndpointHeights == {142345, 707655, 7655}
EndpointPositions == {<<600000, 100000, z>> : z \in EndpointHeights}

\* table heights a calibration may store in z_table
TableHeights == {-150000, 500, 150000}

\* camera-frame x, y of a back-projected pixel, and the error of its z
PixelCoords == {<<100000, 50000>>}
ProjectionErrors == {-1100, -1000, 0, 1000, 1100}

\* hom_gripper_to_robot: the matrix of the limb's end-effector pose
hom_gripper_to_robot(R, t) == Hom(R, t)

\* hom_camera_to_robot; offset is self.cam_offset and is not None
hom_camera_to_robot(R, t, offset) ==
    LET hom_cam_in_grip ==
            Hom(<<<<0, 1, 0>>, <<-1, 0, 0>>, <<0, 0, 1>>>>, offset)
    IN  MatMul(hom_gripper_to_robot(R, t), hom_cam_in_grip)

\* camera_pose(arm)[2]: the z translation of the camera in the robot frame
camera_pose_z(R, t, offset) == hom_camera_to_robot(R, t, offset)[3][4]

\* Camera.projection_pixel_to_camera(pixel, z): a point of the camera frame
\* at depth z, up to the error of the projection
projection_pixel_to_camera(pixel, z, err) == <<pixel[1], pixel[2], z + err>>

Tolerance == 1000

\* `delta = abs(abs(rob_coord[2]) - abs(self.z_table))`
delta_of(raw_z, zt) == Abs(Abs(raw_z) - Abs(zt))

\* `if delta > 1e-3`
warns(delta) == delta > Tolerance

\* the z component of the returned list
returned_raw_z(raw_z, zt) == raw_z
returned_z(raw_z, zt) == zt

\* the part of estimate_object_position after the camera pose is known: T is
\* hom_camera_to_robot(arm) and cam_z is camera_pose(arm)[2]
rob_coord_of(T, cam_coord) ==
    LET rc == MatVec(T, cam_coord \o <<1>>)
    IN  <<rc[1] \div rc[4], rc[2] \div rc[4], rc[3] \div rc[4],
          rc[4] \div rc[4]>>

estimate_result(rob_coord, zt) ==
    [status |-> "return", exc |-> "none", nan |-> FALSE,
     raw |-> <<rob_coord[1], rob_coord[2], rob_coord[3]>>,
     value |-> <<rob_coord[1], rob_coord[2], returned_z(rob_coord[3], zt)>>,
     logs |-> IF warns(delta_of(rob_coord[3], zt))
              THEN <<<<"warning", "z coordinates deviate">>>>
              ELSE <<>>]

estimate_with(zt, T, cam_z, pixel, err) ==
    estimate_result(
        rob_coord_of(T, projection_pixel_to_camera(pixel, cam_z - zt, err)),
        zt)

\* estimate_object_position(arm, center).  With z_table None the first
\* subtraction raises TypeError; with cam_offset None numpy stores NaN in the
\* transform, so every coordinate is NaN and the comparison of delta is False
estimate_object_position(zt, offset, R, t, pixel, err) ==
    IF zt = None
    THEN [status |-> "raise", exc |-> "TypeError", nan |-> FALSE,
          raw |-> <<0, 0, 0>>, value |-> <<>>, logs |-> <<>>]
    ELSE IF offset = None
    THEN [status |-> "return", exc |-> "none", nan |-> TRUE,
          raw |-> <<0, 0, 0>>, value |-> <<"nan", "nan", zt[1]>>,
          logs |-> <<>>]
    ELSE estimate_with(zt[1], hom_camera_to_robot(R, t, offset[1]),
                       camera_pose_z(R, t, offset[1]), pixel, err)

EstimateObjectPosition(arm, R, t, pixel, err) ==
    /\ \E r \in {estimate_object_position(z_table, cam_offset, R, t, pixel,
                                         err)} :
        /\ result' = [op |-> "estimate_object_position", arm |-> arm,
                      z_table |-> z_table,
                      status |-> r.status, exc |-> r.exc, nan |-> r.nan,
                      raw |-> r.raw, value |-> r.value]
        /\ logs' = r.logs
        /\ calls' = IF r.status = "raise"
                    THEN <<[op |-> "endpoint_pose", arm |-> arm]>>
                    ELSE <<[op |-> "endpoint_pose", arm |-> arm],
                           [op |-> "projection_pixel_to_camera", arm |-> arm],
                           [op |-> "endpoint_pose", arm |-> arm]>>
    /\ UNCHANGED <<enabled, _rs, _init_state, cam_offset, range_offset,
                   z_table, task_space_limits_m, gripper_settings, object_size_meters, extVars,
                   configured, enabled0, cyc, cycles>>

\* the calibration of the table height stores its result in z_table
SetZTable(z) ==
    /\ z_table' = Some(z)
    /\ UNCHANGED <<enabled, _rs, _init_state, cam_offset, range_offset,
                   task_space_limits_m, gripper_settings, object_size_meters, extVars, calls, logs,
                   result, configured, enabled0, cyc, cycles>>

\* ------------------------------------------------------ image recorder
\* scripts/record_image.py.  The subscriber runs _camera_callback in its own
\* thread; Images.record runs in the main thread.  A frame message is an
\* object of two parts on the heap; the parts of the f-th delivered frame
\* both carry f.  rospy hands every invocation of the callback a message
\* object of its own.
Frame(f) == <<f, f>>

Keys == {"r", "s", "x"}

IdleCb == [pc |-> "idle"]
StartRec == [pc |-> "subscribe", msg |-> None, part |-> 0,
             read |-> "nothing", image |-> <<0, 0>>]

\* `self._imgmsg = data`: the attribute is bound to the new message object
store_frame(slot, hp, data) == [slot |-> Some(data), heap |-> hp]

\* _camera_callback(data), first statement; the message object is new
CameraCallbackAssign ==
    /\ _cam_sub = "registered"
    /\ cb.pc = "idle"
    /\ Len(heap) < MaxFrames
    /\ \E data \in {Len(heap) + 1} :
       \E r \in {store_frame(_imgmsg, Append(heap, Frame(data)), data)} :
          /\ _imgmsg' = r.slot
          /\ heap' = r.heap
    /\ cb' = [pc |-> "show"]
    /\ UNCHANGED <<baxterVars, _sensors, _cam_sub, rec>>

\* _camera_callback, the remaining statements: the image is shown
CameraCallbackShow ==
    /\ cb.pc = "show"
    /\ cb' = IdleCb
    /\ UNCHANGED <<baxterVars, _sensors, _imgmsg, heap, _cam_sub, rec>>

\* record: the subscriber is created
RecordSubscribe ==
    /\ rec.pc = "subscribe"
    /\ _cam_sub' = "registered"
    /\ rec' = [rec EXCEPT !.pc = "move"]
    /\ UNCHANGED <<baxterVars, _sensors, _imgmsg, heap, cb>>

\* record: the robot is moved to the top pose
RecordMove ==
    /\ rec.pc = "move"
    /\ rec' = [rec EXCEPT !.pc = "key"]
    /\ UNCHANGED <<baxterVars, _sensors, _imgmsg, heap, _cam_sub, cb>>

\* record: a key is read; 'r' records, 's' stops, any other key loops
RecordKey(ch) ==
    /\ rec.pc = "key"
    /\ rec' = [rec EXCEPT !.pc = IF ch = "r" THEN "load"
                                 ELSE IF ch = "s" THEN "done" ELSE "move"]
    /\ _cam_sub' = IF ch = "s" THEN "unregistered" ELSE _cam_sub
    /\ UNCHANGED <<baxterVars, _sensors, _imgmsg, heap, cb>>

\* record: the argument self._imgmsg of write_imgmsg is evaluated
RecordLoad ==
    /\ rec.pc = "load"
    /\ rec' = [rec EXCEPT !.pc = "write1", !.msg = _imgmsg]
    /\ UNCHANGED <<baxterVars, _sensors, _imgmsg, heap, _cam_sub, cb>>

\* the message write_imgmsg reads a part of: the one it was handed
message_of_slot(msg, slot) == slot
message_of(msg, slot) == msg

\* write_imgmsg reads the first part of the message (None has no parts)
RecordWrite1 ==
    /\ rec.pc = "write1"
    /\ rec' = IF rec.msg = None
              THEN [rec EXCEPT !.pc = "move", !.read = "none",
                               !.image = <<0, 0>>]
              ELSE [rec EXCEPT !.pc = "write2",
                               !.part = heap[message_of(rec.msg, _imgmsg)[1]][1]]
    /\ UNCHANGED <<baxterVars, _sensors, _imgmsg, heap, _cam_sub, cb>>

\* write_imgmsg reads the second part and writes the image file
RecordWrite2 ==
    /\ rec.pc = "write2"
    /\ rec' = [rec EXCEPT
                 !.pc = "move", !.read = "frame",
                 !.image = <<rec.part,
                             heap[message_of(rec.msg, _imgmsg)[1]][2]>>]
    /\ UNCHANGED <<baxterVars, _sensors, _imgmsg, heap, _cam_sub, cb>>

\* ------------------------------------------------------- specifications
\* the state after Baxter.__init__, for a robot that is enabled or not
InitBaxter ==
    /\ _rs = None
    /\ _init_state = None
    /\ cam_offset = None
    /\ range_offset = None
    /\ z_table = None
    /\ calls = <<>>
    /\ logs = <<>>
    /\ result = NoResult
    /\ cyc = "fresh"
    /\ cycles = 0
    /\ _imgmsg = None
    /\ heap = <<>>
    /\ _cam_sub = "none"
    /\ cb = IdleCb
    /\ rec = StartRec

DefaultSensors == [a \in Arms |-> 500]

DefaultSizes == [o \in ObjectIds |-> 80]

DefaultGrippers == [a \in Arms |-> IF a = "left" THEN <<"narrow", 2>>
                                   ELSE <<"wide", 1>>]

\* lifecycle and inverse kinematics
Init ==
    /\ InitBaxter
    /\ enabled \in BOOLEAN
    /\ enabled0 = enabled
    /\ task_space_limits_m = DefaultEnvelope
    /\ configured = DefaultEnvelope
    /\ gripper_settings = DefaultGrippers
    /\ object_size_meters = DefaultSizes
    /\ _sensors = DefaultSensors

Next ==
    \/ \E gripper \in BOOLEAN : SetUp(gripper)
    \/ \E gripper \in BOOLEAN : CleanUp(gripper)
    \/ \E arm \in Arms, pose \in Poses, outcome \in IKOutcomes :
          Ik(arm, pose, outcome)
    \/ \E pose \in Poses, outL \in IKOutcomes, outR \in IKOutcomes :
          IkEitherLimb(pose, outL, outR)
    \/ \E trajectory \in Trajectories : Control(trajectory)
    \/ \E arm \in Arms, pose \in Poses, outcome \in IKOutcomes,
          n \in 1..MaxTraj : MoveToPose(arm, pose, outcome, n)

Spec == Init /\ [][Next]_vars

\* pose sampling, for every configured envelope
InitSample ==
    /\ InitBaxter
    /\ task_space_limits_m \in Envelopes
    /\ configured = task_space_limits_m
    /\ gripper_settings = DefaultGrippers
    /\ object_size_meters = DefaultSizes
    /\ _sensors = DefaultSensors
    /\ enabled = FALSE
    /\ enabled0 = FALSE

NextSample ==
    \E clip_z \in BOOLEAN, ks \in [1..6 -> Draws] :
        SampleTaskSpacePose(clip_z, ks)

SpecSample == InitSample /\ [][NextSample]_vars

\* gripper selection, for every pair of installed grippers
InitGripper ==
    /\ InitBaxter
    /\ task_space_limits_m = DefaultEnvelope
    /\ configured = DefaultEnvelope
    /\ gripper_settings \in [Arms -> GripperKeys]
    /\ object_size_meters \in [ObjectIds -> 0..MaxSize]
    /\ _sensors = DefaultSensors
    /\ enabled = FALSE
    /\ enabled0 = FALSE

NextGripper == \E object_id \in ObjectIds : SelectGripperForObject(object_id)

SpecGripper == InitGripper /\ [][NextGripper]_vars

\* position estimation
NextEstimate ==
    \/ \E gripper \in BOOLEAN : SetUp(gripper)
    \/ \E z \in TableHeights : SetZTable(z)
    \/ \E arm \in Arms, R \in Orientations, t \in EndpointPositions,
          pixel \in PixelCoords, err \in ProjectionErrors :
          EstimateObjectPosition(arm, R, t, pixel, err)

SpecEstimate == Init /\ [][NextEstimate]_vars

\* the distance sensor, for every reading of the left sensor
InitSensor ==
    /\ InitBaxter
    /\ task_space_limits_m = DefaultEnvelope
    /\ configured = DefaultEnvelope
    /\ gripper_settings = DefaultGrippers
    /\ object_size_meters = DefaultSizes
    /\ _sensors \in {[a \in Arms |-> IF a = "left" THEN r ELSE q] :
                        r \in Readings, q \in {0, RangeLimit}}
    /\ enabled = FALSE
    /\ enabled0 = FALSE

NextSensor == \E arm \in Arms : MeasureDistance(arm)

SpecSensor == InitSensor /\ [][NextSensor]_vars

\* the image recorder: the callback thread and the recording loop interleave
InitCamera ==
    /\ InitBaxter
    /\ task_space_limits_m = DefaultEnvelope
    /\ configured = DefaultEnvelope
    /\ gripper_settings = DefaultGrippers
    /\ object_size_meters = DefaultSizes
    /\ _sensors = DefaultSensors
    /\ enabled = FALSE
    /\ enabled0 = FALSE

NextCamera ==
    \/ CameraCallbackAssign
    \/ CameraCallbackShow
    \/ RecordSubscribe
    \/ RecordMove
    \/ \E ch \in Keys : RecordKey(ch)
    \/ RecordLoad
    \/ RecordWrite1
    \/ RecordWrite2

SpecCamera == InitCamera /\ [][NextCamera]_vars


\* ================================================================ claims
\* a pose the IK service can be asked about: a Pose message or a list of
\* six or seven numbers
WellFormed(pose) == pose.kind = "Pose" \/ (pose.kind = "list" /\ pose.len \in {6, 7})

ServiceCall(arm) == [op |-> "ik_service", arm |-> arm]
HasCall(c) == \E i \in 1..Len(calls) : calls[i] = c
HasLog(level) == \E i \in 1..Len(logs) : logs[i][1] = level

\* C1: after any number of consecutive set_up -> clean_up cycles the robot's
\* enablement equals its enablement before the first set_up.
C1_RoundTrip == cyc = "down" => enabled = enabled0

C1_Witness ==
    /\ cyc = "down"
    /\ cycles = 2
    /\ result.op = "clean_up"
    /\ ~enabled0
    /\ ~enabled

\* C2: ik_either_limb asks the left arm first; a successful left query gives
\* ('left', config) with no right query; the right arm is asked only after
\* the left query found no valid solution, and a successful right query
\* then gives ('right', config).
C2_LeftFirst ==
    result.op = "ik_either_limb" =>
        /\ calls # <<>> => calls[1].arm = "left"
        /\ \A i \in 1..Len(calls) :
              calls[i].arm = "right" =>
                  /\ result.outL = "invalid"
                  /\ \E j \in 1..(i - 1) : calls[j] = ServiceCall("left")
        /\ (WellFormed(result.pose) /\ result.outL = "valid") =>
              /\ result.status = "return"
              /\ result.arm = "left"
              /\ result.value = Config("left", "ik_service")
              /\ \A i \in 1..Len(calls) : calls[i].arm # "right"
        /\ (WellFormed(result.pose) /\ result.outL = "invalid"
            /\ result.outR = "valid") =>
              /\ result.status = "return"
              /\ result.arm = "right"
              /\ result.value = Config("right", "ik_service")

C2_Witness ==
    /\ result.op = "ik_either_limb"
    /\ result.status = "return"
    /\ result.arm = "right"
    /\ HasCall(ServiceCall("left"))
    /\ HasCall(ServiceCall("right"))

\* the installed range of an arm covers the size of the last selection
RangeOf(a) == _gripper_ranges_meters(gripper_settings[a])
Covers(a) == RangeOf(a)[1] <= result.size /\ result.size < RangeOf(a)[2]
Other(a) == IF a = "left" THEN "right" ELSE "left"
Selected == result.op = "select_gripper_for_object"

\* C3: an arm is a candidate exactly when min <= size < max; when only one
\* arm's range covers the size (its lower bound included) that arm is
\* returned.
C3_LowerInclusive ==
    Selected =>
        \A a \in Arms :
            (Covers(a) /\ ~Covers(Other(a))) =>
                (result.status = "return" /\ result.arm = a)

\* C4: the selector never returns an arm whose range does not cover the
\* size, and raises the no-suitable-gripper error when no range covers it.
C4_OnlyCovering ==
    Selected =>
        /\ result.status = "return" =>
              (result.arm \in Arms /\ Covers(result.arm))
        /\ (\A a \in Arms : ~Covers(a)) =>
              /\ result.status = "raise"
              /\ result.exc = "ValueError"
              /\ result.msg = "No suitable gripper"
              /\ result.arm = "None"

C4_Witness ==
    /\ Selected
    /\ result.status = "raise"
    /\ \A a \in Arms : ~Covers(a)
    /\ \E a \in Arms : result.size = RangeOf(a)[2]

\* distance of the size from the nearer boundary of an arm's range
Score(a) ==
    LET lo == RangeOf(a)[1]
        hi == RangeOf(a)[2]
        dl == IF result.size >= lo THEN result.size - lo ELSE lo - result.size
        dh == IF hi >= result.size THEN hi - result.size ELSE result.size - hi
    IN  IF dl < dh THEN dl ELSE dh

\* the arm the rule of C5 names when both arms are candidates
Preferred ==
    IF Score("left") > Score("right") THEN "left"
    ELSE IF Score("right") > Score("left") THEN "right"
    ELSE IF RangeOf("right")[1] > RangeOf("left")[1] THEN "right"
    ELSE "left"

\* C5: with both arms candidates the arm farther from its nearer boundary is
\* returned; on equal scores the arm with the larger lower bound; on equal
\* lower bounds the left arm.
C5_BestCandidate ==
    (Selected /\ Covers("left") /\ Covers("right")) =>
        (result.status = "return" /\ result.arm = Preferred)

\* C6: the z interval of the configured envelope survives every call, and a
\* call with clip_z = False samples z from the configured interval.
C6_Stateless ==
    /\ task_space_limits_m.z_min = configured.z_min
    /\ task_space_limits_m.z_max = configured.z_max
    /\ (result.op = "sample_task_space_pose" /\ ~result.clip_z) =>
          (result.z_min = configured.z_min /\ result.z_max = configured.z_max)

Estimated ==
    /\ result.op = "estimate_object_position"
    /\ result.status = "return"
    /\ ~result.nan

Deviation ==
    LET d == result.raw[3] - result.z_table[1]
    IN  IF d < 0 THEN -d ELSE d

\* C7: the deviation warning is emitted exactly when the raw z of the
\* transform differs from z_table by more than the tolerance, whatever the
\* signs of the two.
C7_WarnOnDeviation == Estimated => (HasLog("warning") <=> Deviation > Tolerance)

\* C8: every returned estimate has z equal to z_table, and the estimate is
\* returned also when the warning is emitted.
C8_ForcedZ ==
    result.op = "estimate_object_position" =>
        /\ result.status = "return" => result.value[3] = result.z_table[1]
        /\ HasLog("warning") => result.status = "return"

C8_Witness ==
    /\ Estimated
    /\ HasLog("warning")
    /\ result.raw[3] # result.z_table[1]
    /\ result.value[3] = result.z_table[1]

\* C9: 'no valid configuration with either arm' is reported only when the IK
\* service was asked for both arms and found no solution for either, and a
\* list pose of invalid length is reported as an invalid pose.
C9_NoSolutionOnlyFromSolver ==
    result.op = "ik_either_limb" =>
        /\ (result.status = "raise"
            /\ result.msg = "No valid configuration found with either arm") =>
              /\ HasCall(ServiceCall("left"))
              /\ HasCall(ServiceCall("right"))
              /\ result.outL = "invalid"
              /\ result.outR = "invalid"
        /\ (result.pose.kind = "list" /\ ~WellFormed(result.pose)) =>
              /\ result.status = "raise"
              /\ result.msg = "invalid pose length"

Failing(outcome) == outcome \in {"unavailable", "transport"}
ExcOf(outcome) ==
    IF outcome = "unavailable" THEN "ROSException" ELSE "ServiceException"
CountCalls(op) == Cardinality({i \in 1..Len(calls) : calls[i].op = op})

\* C10: an unavailable IK service or a failed service call is logged and
\* raised to the caller without retry or fallback: nothing is sent after a
\* failed wait, and ik_either_limb does not try the right arm after such a
\* failure of the left arm.
C10_NoRetry ==
    /\ (result.op = "ik" /\ WellFormed(result.pose)
        /\ Failing(result.outcome)) =>
          /\ result.status = "raise"
          /\ result.exc = ExcOf(result.outcome)
          /\ HasLog("error")
          /\ CountCalls("wait_for_service") = 1
          /\ CountCalls("ik_service")
               = (IF result.outcome = "unavailable" THEN 0 ELSE 1)
    /\ (result.op = "ik_either_limb" /\ WellFormed(result.pose)
        /\ Failing(result.outL)) =>
          /\ result.status = "raise"
          /\ result.exc = ExcOf(result.outL)
          /\ HasLog("error")
          /\ \A i \in 1..Len(calls) : calls[i].arm = "left"
          /\ CountCalls("wait_for_service") = 1
          /\ CountCalls("ik_service")
               = (IF result.outL = "unavailable" THEN 0 ELSE 1)

C10_Witness ==
    /\ result.op = "ik_either_limb"
    /\ WellFormed(result.pose)
    /\ result.outL = "unavailable"
    /\ result.outR = "valid"
    /\ result.status = "raise"
    /\ result.exc = "ROSException"
    /\ calls = <<[op |-> "wait_for_service", arm |-> "left"]>>

\* position of the first call of an operation in `calls` (0: no such call)
FirstCall(op) ==
    IF \E i \in 1..Len(calls) : calls[i].op = op
    THEN CHOOSE i \in 1..Len(calls) :
            calls[i].op = op /\ \A j \in 1..(i - 1) : calls[j].op # op
    ELSE 0

\* C11: ik sends a request to the IK service only for a pose that is not
\* None and well-formed, and only after waiting for the service; a None
\* pose returns the current joint angles and a malformed pose raises, both
\* without a wait and without a request.
C11_RequestOnlyForValidPose ==
    result.op = "ik" =>
        /\ CountCalls("ik_service") > 0 =>
              /\ result.pose.kind # "None"
              /\ WellFormed(result.pose)
              /\ FirstCall("wait_for_service") > 0
              /\ FirstCall("wait_for_service") < FirstCall("ik_service")
        /\ result.pose.kind = "None" =>
              /\ result.status = "return"
              /\ result.value = Config(result.arm, "joint_angles")
              /\ CountCalls("wait_for_service") = 0
              /\ CountCalls("ik_service") = 0
        /\ (result.pose.kind = "list" /\ ~WellFormed(result.pose)) =>
              /\ result.status = "raise"
              /\ CountCalls("wait_for_service") = 0
              /\ CountCalls("ik_service") = 0

C11_Witness ==
    /\ result.op = "ik"
    /\ result.pose.kind = "list"
    /\ result.pose.len = 5
    /\ result.outcome = "valid"
    /\ result.status = "raise"
    /\ calls = <<>>

\* C12 as stated: set_up sends the enable command only if the robot was not
\* enabled when set_up read its state.
C12_EnableOnlyIfDisabled ==
    result.op = "set_up" =>
        (CountCalls("enable") > 0 <=> _init_state = Some(FALSE))

\* C12 as amended: set_up reads the state of the robot and then sends the
\* enable command exactly once, whatever state it read, and the robot is
\* enabled afterwards.
C12_EnableAlways ==
    result.op = "set_up" =>
        /\ CountCalls("enable") = 1
        /\ FirstCall("state") > 0
        /\ FirstCall("state") < FirstCall("enable")
        /\ _init_state \in {Some(TRUE), Some(FALSE)}
        /\ enabled

C12_Witness ==
    /\ result.op = "set_up"
    /\ _init_state = Some(TRUE)
    /\ CountCalls("enable") = 1

\* C13: measure_distance returns None for every raw reading >= 65000 and
\* raw/1000 metres for every raw reading below, never 65 m or more.
C13_SensorRange ==
    result.op = "measure_distance" =>
        /\ result.raw >= 65000 => result.value = None
        /\ result.raw < 65000 =>
              /\ result.value # None
              /\ result.value[1][1] * 1000 + result.value[1][2] = result.raw
              /\ result.value[1][2] \in 0..999
        /\ result.value # None => result.value[1][1] < 65

C13_Witness ==
    /\ result.op = "measure_distance"
    /\ result.raw = 65000
    /\ result.value = None

\* the bounds of the six coordinates in the envelope the last call used
LowerOf(i) ==
    CASE i = 1 -> task_space_limits_m.x_min
      [] i = 2 -> task_space_limits_m.y_min
      [] i = 3 -> task_space_limits_m.z_min
      [] i = 4 -> task_space_limits_m.roll_min
      [] i = 5 -> task_space_limits_m.pitch_min
      [] i = 6 -> task_space_limits_m.yaw_min
UpperOf(i) ==
    CASE i = 1 -> task_space_limits_m.x_max
      [] i = 2 -> task_space_limits_m.y_max
      [] i = 3 -> task_space_limits_m.z_max
      [] i = 4 -> task_space_limits_m.roll_max
      [] i = 5 -> task_space_limits_m.pitch_max
      [] i = 6 -> task_space_limits_m.yaw_max
Sampled == result.op = "sample_task_space_pose"

\* C14 as stated: every sampled coordinate lies in its interval, and for any
\* configured envelope a call with clip_z = True returns z <= 0.
C14_InsideAndClipped ==
    Sampled =>
        /\ \A i \in 1..6 :
              /\ LowerOf(i) * SampleRes <= result.pose[i]
              /\ result.pose[i] <= UpperOf(i) * SampleRes
        /\ result.clip_z => result.pose[3] <= 0

\* C14 as amended: every sampled coordinate lies between the two bounds it
\* is sampled from; a call with clip_z = True samples z with upper bound 0,
\* and its z does not exceed 0 when the configured z_min is at most 0.
C14_BetweenBounds ==
    Sampled =>
        /\ \A i \in 1..6 :
              \/ /\ LowerOf(i) * SampleRes <= result.pose[i]
                 /\ result.pose[i] <= UpperOf(i) * SampleRes
              \/ /\ UpperOf(i) * SampleRes <= result.pose[i]
                 /\ result.pose[i] <= LowerOf(i) * SampleRes
        /\ result.clip_z => (result.z_max = 0 /\ UpperOf(3) = 0)
        /\ (result.clip_z /\ configured.z_min <= 0) => result.pose[3] <= 0

C14_Witness ==
    /\ Sampled
    /\ result.clip_z
    /\ configured.z_max > 0
    /\ configured.z_min < 0
    /\ result.pose[3] < 0
    /\ result.pose[3] > configured.z_min * SampleRes

\* C15: control rejects every trajectory that is not a planner in position
\* mode before any move command: velocity and torque are not supported, any
\* other mode is unknown, a non-planner is a type error.
C15_RejectBeforeMove ==
    result.op = "control" =>
        LET tr == result.trajectory IN
        /\ ~tr.planner =>
              (result.status = "raise" /\ result.exc = "TypeError")
        /\ (tr.planner /\ tr.controller_type \in {"velocity", "torque"}) =>
              (result.status = "raise" /\ result.exc = "NotImplementedError")
        /\ (tr.planner
            /\ tr.controller_type \notin {"position", "velocity", "torque"}) =>
              (result.status = "raise" /\ result.exc = "KeyError")
        /\ (~tr.planner \/ tr.controller_type # "position") => calls = <<>>

C15_Witness ==
    /\ result.op = "control"
    /\ result.trajectory.planner
    /\ result.trajectory.controller_type = "velocity"
    /\ Len(result.trajectory.qs) > 0
    /\ result.exc = "NotImplementedError"
    /\ calls = <<>>

IkFails(pose, outcome) ==
    pose.kind # "None" /\ (~WellFormed(pose) \/ outcome # "valid")

\* C16: move_to_pose plans and moves only after ik returned: when ik raises
\* the error reaches the caller with no plan and no move command; otherwise
\* one plan is made and then executed.
C16_PlanAfterIk ==
    result.op = "move_to_pose" =>
        /\ IkFails(result.pose, result.outcome) =>
              /\ result.status = "raise"
              /\ result.exc \in {"ValueError", "ROSException",
                                 "ServiceException"}
              /\ CountCalls("plan") = 0
              /\ CountCalls("move_to_joint_positions") = 0
        /\ ~IkFails(result.pose, result.outcome) =>
              /\ result.status = "return"
              /\ CountCalls("plan") = 1
              /\ CountCalls("move_to_joint_positions") = result.steps
              /\ \A i \in 1..Len(calls) :
                    calls[i].op = "move_to_joint_positions" =>
                        (FirstCall("plan") < i /\ calls[i].arm = result.arm)

C16_Witness ==
    /\ result.op = "move_to_pose"
    /\ result.outcome = "valid"
    /\ WellFormed(result.pose)
    /\ result.steps = 2
    /\ result.status = "return"
    /\ CountCalls("plan") = 1
    /\ calls[Len(calls)].op = "move_to_joint_positions"

\* C17: in set_up the state is read and the robot enabled before any arm is
\* moved to neutral or any gripper calibrated; in clean_up the disable
\* command, when sent, is the last call, after both arms were moved to
\* neutral and, with gripper = True, both grippers opened.
C17_Order ==
    /\ result.op = "set_up" =>
          /\ FirstCall("state") > 0
          /\ FirstCall("state") < FirstCall("enable")
          /\ \A i \in 1..Len(calls) :
                calls[i].op \in {"move_to_neutral", "calibrate"} =>
                    FirstCall("enable") < i
    /\ (result.op = "clean_up" /\ CountCalls("disable") > 0) =>
          /\ calls[Len(calls)].op = "disable"
          /\ CountCalls("disable") = 1
          /\ \A a \in Arms :
                /\ HasCall([op |-> "move_to_neutral", arm |-> a])
                /\ result.gripper => HasCall([op |-> "open", arm |-> a])

C17_Witness ==
    /\ result.op = "clean_up"
    /\ result.gripper
    /\ CountCalls("disable") = 1
    /\ ~enabled

\* C18: whatever the interleaving of the callback and the recording loop, a
\* read of the latest frame yields no frame or one frame as it was
\* delivered, possibly an old one, never parts of two frames.
C18_NoTornRead ==
    /\ rec.read = "frame" =>
          /\ rec.image[1] = rec.image[2]
          /\ rec.image[1] \in 1..Len(heap)
    /\ rec.read = "none" => rec.image = <<0, 0>>
    /\ \A f \in 1..Len(heap) : heap[f] = Frame(f)

C18_Witness ==
    /\ rec.read = "frame"
    /\ rec.image = Frame(1)
    /\ Len(heap) >= 2
    /\ _imgmsg # Some(1)

====
